---------------------------- MODULE Spec2Model ----------------------------
(***************************************************************************)
(* The day4 plan -> work -> evaluate graph (src/day4.py) run by LangGraph  *)
(* as a sequence of supersteps: every node scheduled for a superstep reads *)
(* the same snapshot of the state, the writes of all of them are applied   *)
(* together, and the edges leaving the nodes that ran schedule the next    *)
(* superstep.  The state is checkpointed per thread id, so the next call   *)
(* of gradio_chat starts from what the previous call left behind.          *)
(*                                                                         *)
(* Texts are sequences of tokens; the texts the evaluator normalises are   *)
(* sequences of single characters.                                         *)
(*                                                                         *)
(* Spec and FairSpec are the graph driven by one caller.  StartSpec is the *)
(* import of the module in any environment and the tools called on their   *)
(* own, BrowseSpec is web_browse of src/openai-playwright.py statement by  *)
(* statement, CallersSpec is gradio_chat called by two callers that share  *)
(* the thread id.                                                          *)
(***************************************************************************)
EXTENDS Naturals, Sequences, FiniteSets

\* ------------------------------------------------------------------ bounds
MaxTurns == 2          \* calls of gradio_chat on the thread
MaxDeviations == 1     \* tool requests and retry answers of the free engine
MaxInterrupts == 1     \* turns cut short by an engine fault
MaxToolCalls == 3      \* requests dispatched to the tools on their own
MaxBrowseCalls == 2    \* calls of web_browse
MaxCallerTurns == 2    \* calls of gradio_chat per caller
MaxCallerSteps == 2    \* supersteps of a caller's turn

\* ------------------------------------------------------- program constants
\* The limit LangGraph applies when the config sets none.
default_recursion_limit == 5 * 5

\* config["recursion_limit"]
recursion_limit == 100

\* page.goto(url, timeout=20000), in milliseconds
goto_timeout == 20000

\* --------------------------------------------------------------- the state
VARIABLES
    messages,       \* State.messages (add_messages channel)
    plan,           \* State.plan
    worker_output,  \* State.worker_output
    evaluation,     \* State.evaluation
    redo,           \* State.redo
    next,           \* the nodes scheduled for the next superstep
    step,           \* supersteps executed in the current turn
    status,         \* "idle", "running", "done", "out_of_steps", "interrupted"
    turn,           \* number of calls of gradio_chat so far
    returned,       \* what the last gradio_chat call returned
    ran,            \* the nodes that ran in the last superstep
    engine,         \* the reasoning engine's disposition in this turn
    budget,         \* what is left of the free engine's and the fault budgets
    nextId,         \* source of fresh message and tool-call ids
    question,       \* the user message text of the current turn
    plannerInput,   \* user_message of the planner, if it ran in the last superstep
    workerPrompt,   \* prompt of the worker, if it ran in the last superstep
    evalInput,      \* user_question, output and engine text of the evaluator, likewise
    entryMessages,  \* State.messages as the worker found it, likewise
    environ,        \* os.environ after load_dotenv: the credentials that are set
    program,        \* "unstarted", "ready" (module imported, graph built) or "failed"
    toolLog,        \* the tool messages of the requests dispatched so far
    browser,        \* the web_browse call in progress
    inCall,         \* per caller of graph.invoke: its call of gradio_chat
    store           \* the rows of the thread id in the checkpoint database

\* The variables of the graph and its one thread.
graphVars == <<messages, plan, worker_output, evaluation, redo, next, step, status,
               turn, returned, ran, engine, budget, nextId, question,
               plannerInput, workerPrompt, evalInput, entryMessages>>

\* The variables of the program start and of the tools called on their own.
startVars == <<environ, program, toolLog>>

\* The variables of the callers that share the thread id.
callerVars == <<inCall, store>>

vars == <<graphVars, startVars, browser, callerVars>>

\* ------------------------------------------------------------------- texts
None == <<"<None>">>

Questions == <<<<"question", "1">>, <<"question", "2">>>>
PlanTexts == <<<<"plan", "A">>, <<"plan", "B">>>>
Drafts == <<<<"draft", "1">>, <<"draft", "2">>>>

WorkerSystemText == <<"You are a worker that executes tasks.">>
FollowPlan(p) == <<"Follow this plan:\n">> \o p

Whitespace == {" ", "\n", "\t"}

Retry == <<"r", "e", "t", "r", "y">>
Ok == <<"o", "k">>

\* The texts the engine may answer the evaluator with.
EvalTexts ==
    { Retry,
      Ok,
      <<"R", "e", "t", "r", "y">>,
      <<" ", "r", "e", "t", "R", "Y", "\n">>,
      <<"r", "e", "t", "r", "y", ".">>,
      <<"r", "e", " ", "t", "r", "y">>,
      <<"n", "o", " ", "r", "e", "t", "r", "y">>,
      <<"n", "o", "t", " ", "s", "u", "r", "e">>,
      <<>> }

LowerChar(c) ==
    CASE c = "R" -> "r"
      [] c = "E" -> "e"
      [] c = "T" -> "t"
      [] c = "Y" -> "y"
      [] c = "O" -> "o"
      [] c = "K" -> "k"
      [] OTHER -> c

\* str.lower()
Lower(s) == [i \in 1..Len(s) |-> LowerChar(s[i])]

RECURSIVE LStrip(_)
LStrip(s) ==
    IF s # <<>> /\ Head(s) \in Whitespace THEN LStrip(Tail(s)) ELSE s

RECURSIVE RStrip(_)
RStrip(s) ==
    IF s # <<>> /\ s[Len(s)] \in Whitespace
    THEN RStrip(SubSeq(s, 1, Len(s) - 1))
    ELSE s

\* str.strip()
Strip(s) == RStrip(LStrip(s))

\* Normalisation that forgets to lower-case.
StripOnly(s) == Strip(s)

\* result.content.strip().lower()
Normalize(s) == Lower(Strip(s))


\* ---------------------------------------------------------------- messages
Last(s) == s[Len(s)]

Message(id, role, content, tool_calls, tool_call_id) ==
    [id |-> id, role |-> role, content |-> content,
     tool_calls |-> tool_calls, tool_call_id |-> tool_call_id]

\* {"role": "user", "content": message}
HumanMessage(id, content) == Message(id, "user", content, <<>>, 0)

\* what llm_with_tools.invoke returns: an assistant message with its requests
AIMessage(id, content, names) ==
    Message(id, "assistant", content,
            [k \in 1..Len(names) |-> [name |-> names[k], id |-> id + k]], 0)

ToolMessage(id, content, tool_call_id) ==
    Message(id, "tool", content, <<>>, tool_call_id)

HasId(s, id) == \E i \in 1..Len(s) : s[i].id = id

\* add_messages, one incoming message: a message whose id is already in the
\* history replaces that entry in place, any other message is appended.
MergeOne(left, m) ==
    IF HasId(left, m.id)
    THEN [i \in 1..Len(left) |-> IF left[i].id = m.id THEN m ELSE left[i]]
    ELSE Append(left, m)

\* A messages channel without its reducer: the incoming list overwrites.
overwrite_messages(left, right) == right

RECURSIVE add_messages(_, _)
add_messages(left, right) ==
    IF right = <<>> THEN left
    ELSE add_messages(MergeOne(left, Head(right)), Tail(right))

\* ------------------------------------------------------------------- tools
\* tools = [tool_search, tool_push]
ToolNames == {"search", "send_push_notification"}

\* The request lists a free engine may attach to a worker message.
ToolCallChoices ==
    { <<"search">>,
      <<"send_push_notification", "search">>,
      <<"lookup">> }

\* The request list of an engine that asks for tools on every pass.
HabitCalls == <<"search">>

\* func of each registered tool, as a text
ToolResult(name) ==
    IF name = "search" THEN <<"search result">>
    ELSE <<"Push notification sent.">>

\* A dispatcher that does not look the name up before it calls.
RunToolUnchecked(call, faulty) ==
    IF faulty THEN <<"Error: tool raised", call.name>>
    ELSE ToolResult(call.name)

\* ToolNode, one request: the tool's text, the error text of a tool that
\* raised, or the error text for a name that is not registered.
RunTool(call, faulty) ==
    IF call.name \notin ToolNames THEN <<"Error: not a valid tool", call.name>>
    ELSE IF faulty THEN <<"Error: tool raised", call.name>>
    ELSE ToolResult(call.name)

\* ------------------------------------------------------------------- State
\* class State: the channels a node reads, as one snapshot
State ==
    [messages |-> messages, plan |-> plan, worker_output |-> worker_output,
     evaluation |-> evaluation, redo |-> redo]

NoWrites == [k \in {} |-> None]

\* One node's returned dict applied to a snapshot: messages goes through its
\* reducer, every other key is overwritten.
Apply(S, w) ==
    [k \in DOMAIN S |->
        IF k \notin DOMAIN w THEN S[k]
        ELSE IF k = "messages" THEN add_messages(S[k], w[k])
        ELSE w[k]]

\* ------------------------------------------------------------------- nodes
\* planner: user_message = state["messages"][-1].content
PlannerUserMessage(S) == Last(S.messages).content

\* The engine's plan: never the text of the plan already in the state.
PlanText(S) == IF S.plan = PlanTexts[1] THEN PlanTexts[2] ELSE PlanTexts[1]

\* A planner that also clears the verdict.
plannerClearsRedo(S) == [plan |-> PlanText(S), redo |-> "False"]

\* planner: return {"plan": result.content}
planner(S) == [plan |-> PlanText(S)]

\* worker: the prompt handed to llm_with_tools.invoke
WorkerPrompt(S) ==
    << [role |-> "system", content |-> WorkerSystemText],
       [role |-> "user", content |-> FollowPlan(S.plan)] >>

\* The engine's draft: never the text of its previous draft.
Draft(S) == IF S.worker_output = Drafts[1] THEN Drafts[2] ELSE Drafts[1]

\* worker: return {"worker_output": result.content, "messages": [result]}
worker(S, id, names) ==
    [worker_output |-> Draft(S),
     messages |-> << AIMessage(id, Draft(S), names) >>]

\* evaluator: user_question = state["messages"][-1].content
EvaluatorUserQuestion(S) == Last(S.messages).content

\* evaluator: output = state["worker_output"]
EvaluatorOutput(S) == S.worker_output

\* An evaluator that stores whatever the engine answered.
evaluatorStoresText(S, text) ==
    [redo |-> IF Normalize(text) = Retry THEN "True" ELSE "False",
     evaluation |-> Normalize(text)]

\* evaluator: the verdict on the engine's text
evaluator(S, text) ==
    IF Normalize(text) = Retry
    THEN [redo |-> "True", evaluation |-> Normalize(text)]
    ELSE [redo |-> "False", evaluation |-> Ok]

\* ToolNode(tools=tools): one tool message per request of the last message,
\* in request order
ToolNode(S, id, faulty) ==
    LET calls == Last(S.messages).tool_calls IN
    [messages |->
        [k \in 1..Len(calls) |->
            ToolMessage(id + k - 1, RunTool(calls[k], k \in faulty), calls[k].id)]]

\* What a node returns when it runs on the snapshot S.
NodeWrites(S, node, id, names, text, faulty) ==
    CASE node = "planner" -> planner(S)
      [] node = "worker" -> worker(S, id, names)
      [] node = "evaluator" -> evaluator(S, text)
      [] node = "tools" -> ToolNode(S, id, faulty)

\* The ids a superstep uses up: the worker's message and its requests, or the
\* tool messages.
FreshIds(S, nodes, names) ==
    IF "worker" \in nodes THEN 1 + Len(names)
    ELSE IF "tools" \in nodes THEN Len(Last(S.messages).tool_calls)
    ELSE 0

\* The order in which the writes of one superstep are applied.
NodeOrder == <<"planner", "worker", "tools", "evaluator">>

\* The writes of all the nodes of a superstep applied to the snapshot.
RECURSIVE ApplyAll(_, _, _)
ApplyAll(S, writes, k) ==
    IF k > Len(NodeOrder) THEN S
    ELSE ApplyAll(IF NodeOrder[k] \in DOMAIN writes
                  THEN Apply(S, writes[NodeOrder[k]]) ELSE S,
                  writes, k + 1)

\* ------------------------------------------------------------------- edges
END == "__end__"

\* An entry edge that skips the planner.
StartAtWorker == {"worker"}

\* add_edge(START, "planner")
StartEdges == {"planner"}

\* add_edge("planner", "worker"), add_edge("tools", "worker"),
\* add_edge("worker", "evaluator")
StaticEdges(node) ==
    CASE node = "planner" -> {"worker"}
      [] node = "tools" -> {"worker"}
      [] node = "worker" -> {"evaluator"}
      [] OTHER -> {}

\* langgraph.prebuilt.tools_condition
tools_condition(S) ==
    IF S.messages # <<>> /\ Last(S.messages).tool_calls # <<>>
    THEN "tools" ELSE "__end__"

\* add_conditional_edges("worker", tools_condition, {...})
WorkerBranch(S) ==
    IF tools_condition(S) = "tools" THEN {"tools"} ELSE {"evaluator"}

\* lambda state: "retry" if state["redo"] else "finish"
EvaluatorRoute(S) == IF S.redo = "True" THEN "retry" ELSE "finish"

\* A retry edge that leads back to the planner.
EvaluatorBranchReplan(S) ==
    IF S.redo = "True" THEN {"planner"} ELSE {END}

\* add_conditional_edges("evaluator", ..., {"retry": "worker", "finish": END})
EvaluatorBranch(S) ==
    IF EvaluatorRoute(S) = "retry" THEN {"worker"} ELSE {END}

\* The nodes a node schedules once it has run: its static edges and the
\* target its branch picks on the state with the node's own writes applied.
Successors(node, S) ==
    StaticEdges(node) \cup
        ( CASE node = "worker" -> WorkerBranch(S)
            [] node = "evaluator" -> EvaluatorBranch(S)
            [] OTHER -> {} )

\* ------------------------------------------------------------ the engine
\* A turn meets a free engine, which picks its answers within the budget, or
\* an engine of fixed habit: "tools" asks for a tool on every worker pass,
\* "retry" never asks for a tool and always answers retry, "both" asks for a
\* tool on every pass that does not follow a tool result and always answers
\* retry.  Only the first turn of a thread meets an engine of fixed habit.
Habits == {"tools", "retry", "both"}

EngineChoices == IF turn = 0 THEN Habits \cup {"free"} ELSE {"free"}

\* The request lists the engine may attach to the worker's message.
WorkerCallChoices(S) ==
    CASE engine = "tools" -> {HabitCalls}
      [] engine = "retry" -> {<<>>}
      [] engine = "both" ->
            IF Last(S.messages).role = "tool" THEN {<<>>} ELSE {HabitCalls}
      [] OTHER ->
            {<<>>} \cup (IF budget.deviations > 0 THEN ToolCallChoices ELSE {})

\* The texts the engine may answer the evaluator with.
EvalTextChoices(S) ==
    CASE engine = "tools" -> {Ok}
      [] engine \in {"retry", "both"} -> {Retry}
      [] OTHER ->
            {t \in EvalTexts :
                evaluator(S, t).redo = "True" => budget.deviations > 0}

\* The requests of a tool pass whose tool raises.
FaultyChoices(S) ==
    IF engine = "free" THEN {{}, {1}} ELSE {{}}

\* The user message of a turn.
Question(t) == Questions[(t % 2) + 1]

GraphRecursionError == <<"GraphRecursionError">>
EngineError == <<"EngineError">>

NoEvalInput == [user_question |-> None, output |-> None, text |-> None]

\* ------------------------------------------------------------- credentials
\* The environment variables the tools are built from.
Credentials == {"SERPER_API_KEY", "PUSHOVER_TOKEN", "PUSHOVER_USER"}

\* No exception is being handled.
NoException == [kind |-> "None", at |-> "None"]

\* No page is being fetched.
NoBrowse ==
    [pc |-> "idle", n |-> 0, url |-> None, elapsed |-> 0, html |-> None,
     exc |-> NoException, result |-> None]

\* The callers of graph.invoke on the thread id: the threads in which the
\* server runs gradio_chat, or two processes opened on the one database file.
Callers == {1, 2}

\* No caller is in a call.
NoCalls ==
    [c \in Callers |-> [pc |-> "idle", local |-> <<>>, steps |-> 0, turns |-> 0]]

\* -------------------------------------------------------------------- Init
GraphInit ==
    /\ messages = <<>>
    /\ plan = None
    /\ worker_output = None
    /\ evaluation = None
    /\ redo = "None"
    /\ next = {}
    /\ step = 0
    /\ status = "idle"
    /\ turn = 0
    /\ returned = None
    /\ ran = {}
    /\ engine = "free"
    /\ budget = [deviations |-> MaxDeviations, interrupts |-> MaxInterrupts]
    /\ nextId = 1
    /\ question = None
    /\ plannerInput = None
    /\ workerPrompt = <<>>
    /\ evalInput = NoEvalInput
    /\ entryMessages = <<>>

\* The graph is built and one caller drives its thread: every credential is
\* set, no tool has been called on its own, no page is being fetched.
Init ==
    /\ GraphInit
    /\ environ = Credentials
    /\ program = "ready"
    /\ toolLog = <<>>
    /\ browser = NoBrowse
    /\ inCall = NoCalls
    /\ store = <<>>

\* ----------------------------------------------------------------- actions
\* gradio_chat: graph.invoke({"messages": [user message]}, config) on the one
\* thread id.  The input goes through the messages reducer on top of the
\* checkpointed state, whatever the previous turn left scheduled is dropped,
\* and the edge out of START schedules the planner.
Invoke ==
    /\ status # "running"
    /\ turn < MaxTurns
    /\ \E e \in EngineChoices : engine' = e
    /\ question' = Question(turn)
    /\ messages' = add_messages(messages, << HumanMessage(nextId, Question(turn)) >>)
    /\ nextId' = nextId + 1
    /\ next' = StartEdges
    /\ step' = 0
    /\ status' = "running"
    /\ turn' = turn + 1
    /\ returned' = None
    /\ ran' = {}
    /\ plannerInput' = None
    /\ workerPrompt' = <<>>
    /\ evalInput' = NoEvalInput
    /\ entryMessages' = <<>>
    /\ UNCHANGED <<plan, worker_output, evaluation, redo, budget>>
    /\ UNCHANGED <<startVars, browser, callerVars>>

\* One superstep: every scheduled node runs on the same snapshot, the writes
\* are applied together and checkpointed, and the edges schedule what is next.
Superstep ==
    /\ status = "running"
    /\ step < recursion_limit
    /\ next # {}
    /\ \E names \in (IF "worker" \in next THEN WorkerCallChoices(State) ELSE {<<>>}),
          text \in (IF "evaluator" \in next THEN EvalTextChoices(State) ELSE {<<>>}),
          faulty \in (IF "tools" \in next THEN FaultyChoices(State) ELSE {{}}) :
       \E S \in {State} :
       \E writes \in {[n \in next |-> NodeWrites(S, n, nextId, names, text, faulty)]} :
       \E after \in {ApplyAll(S, writes, 1)} :
          /\ messages' = after.messages
          /\ plan' = after.plan
          /\ worker_output' = after.worker_output
          /\ evaluation' = after.evaluation
          /\ redo' = after.redo
          /\ next' = UNION {Successors(n, Apply(S, writes[n])) : n \in next} \ {END}
          /\ nextId' = nextId + FreshIds(S, next, names)
          /\ budget' =
                [budget EXCEPT
                    !.deviations =
                        IF engine = "free"
                           /\ \/ "worker" \in next /\ names # <<>>
                              \/ "evaluator" \in next /\ after.redo = "True"
                        THEN @ - 1 ELSE @]
          /\ plannerInput' = IF "planner" \in next
                             THEN PlannerUserMessage(S) ELSE None
          /\ workerPrompt' = IF "worker" \in next THEN WorkerPrompt(S) ELSE <<>>
          /\ entryMessages' = IF "worker" \in next THEN S.messages ELSE <<>>
          /\ evalInput' = IF "evaluator" \in next
                          THEN [user_question |-> EvaluatorUserQuestion(S),
                                output |-> EvaluatorOutput(S), text |-> text]
                          ELSE NoEvalInput
    /\ ran' = next
    /\ step' = step + 1
    /\ UNCHANGED <<status, turn, returned, engine, question>>
    /\ UNCHANGED <<startVars, browser, callerVars>>

\* Nothing is scheduled: graph.invoke returns the state and gradio_chat
\* returns result["messages"][-1].content.
Finish ==
    /\ status = "running"
    /\ step < recursion_limit
    /\ next = {}
    /\ status' = "done"
    /\ returned' = Last(messages).content
    /\ UNCHANGED <<messages, plan, worker_output, evaluation, redo, next, step,
                   turn, ran, engine, budget, nextId, question,
                   plannerInput, workerPrompt, evalInput, entryMessages>>
    /\ UNCHANGED <<startVars, browser, callerVars>>

\* A limit check that is off by one and so never fires.
OutOfStepsLate ==
    /\ status = "running"
    /\ step > recursion_limit
    /\ status' = "out_of_steps"
    /\ returned' = GraphRecursionError
    /\ UNCHANGED <<messages, plan, worker_output, evaluation, redo, next, step,
                   turn, ran, engine, budget, nextId, question,
                   plannerInput, workerPrompt, evalInput, entryMessages>>
    /\ UNCHANGED <<startVars, browser, callerVars>>

\* "recursion_limit": 100 supersteps have run: graph.invoke raises
\* GraphRecursionError, which gradio_chat does not catch.
OutOfSteps ==
    /\ status = "running"
    /\ step = recursion_limit
    /\ status' = "out_of_steps"
    /\ returned' = GraphRecursionError
    /\ UNCHANGED <<messages, plan, worker_output, evaluation, redo, next, step,
                   turn, ran, engine, budget, nextId, question,
                   plannerInput, workerPrompt, evalInput, entryMessages>>
    /\ UNCHANGED <<startVars, browser, callerVars>>

\* llm.invoke raises in the one node about to run: graph.invoke raises, and
\* the thread keeps the state of the last superstep that completed.
Interrupt ==
    /\ status = "running"
    /\ step < recursion_limit
    /\ next \in {{"planner"}, {"worker"}, {"evaluator"}}
    /\ engine = "free"
    /\ budget.interrupts > 0
    /\ budget' = [budget EXCEPT !.interrupts = @ - 1]
    /\ status' = "interrupted"
    /\ returned' = EngineError
    /\ UNCHANGED <<messages, plan, worker_output, evaluation, redo, next, step,
                   turn, ran, engine, nextId, question,
                   plannerInput, workerPrompt, evalInput, entryMessages>>
    /\ UNCHANGED <<startVars, browser, callerVars>>

Next == Invoke \/ Superstep \/ Finish \/ OutOfSteps \/ Interrupt

Spec == Init /\ [][Next]_vars

\* A turn in progress is carried on: graph.invoke runs its loop to the end.
TurnStep == Superstep \/ Finish \/ OutOfSteps

FairSpec == Spec /\ WF_vars(TurnStep)

\* ------------------------------------------------- the start of the program
\* os.getenv(key): the value, or None when the variable is not set.
getenv(env, key) == IF key \in env THEN <<"value of", key>> ELSE None

\* GoogleSerperAPIWrapper(): the wrapper reads SERPER_API_KEY when it is
\* built and raises when the variable is not set.
GoogleSerperAPIWrapper(env) ==
    IF getenv(env, "SERPER_API_KEY") = None THEN "ValidationError" ELSE "serper"

\* The HTTP status the push service answers a post with.
PushoverStatus(token, user) ==
    IF token # None /\ user # None THEN 200 ELSE 400

\* serper.run(query): raises when the request fails.
serper_run(net) ==
    IF net = "down" THEN [raised |-> TRUE, status |-> 0]
    ELSE [raised |-> FALSE, status |-> 200]

\* push_tool(text): requests.post raises when the request cannot be made;
\* the response is not looked at.
push_tool(token, user, net) ==
    IF net = "down" THEN [raised |-> TRUE, status |-> 0]
    ELSE [raised |-> FALSE, status |-> PushoverStatus(token, user)]

\* The program as it is before its module is imported, in any environment.
StartInit ==
    /\ GraphInit
    /\ environ \in SUBSET Credentials
    /\ program = "unstarted"
    /\ toolLog = <<>>
    /\ browser = NoBrowse
    /\ inCall = NoCalls
    /\ store = <<>>

\* The module is imported: load_dotenv, the search wrapper, the two tools,
\* the graph.  The one statement that reads a credential and can raise is
\* serper = GoogleSerperAPIWrapper().
Import ==
    /\ program = "unstarted"
    /\ program' = IF GoogleSerperAPIWrapper(environ) = "ValidationError"
                  THEN "failed" ELSE "ready"
    /\ UNCHANGED <<graphVars, environ, toolLog, browser, callerVars>>

\* The dispatcher runs one request for a registered tool and appends the
\* tool message: the tool's text, or the error text when the tool raised.
CallTool ==
    /\ program = "ready"
    /\ Len(toolLog) < MaxToolCalls
    /\ \E name \in ToolNames, net \in {"up", "down"} :
          \E out \in { IF name = "search" THEN serper_run(net)
                       ELSE push_tool(getenv(environ, "PUSHOVER_TOKEN"),
                                      getenv(environ, "PUSHOVER_USER"), net) } :
             toolLog' = Append(toolLog,
                               [name |-> name, status |-> out.status,
                                content |-> RunTool([name |-> name, id |-> 0],
                                                    out.raised)])
    /\ UNCHANGED <<graphVars, environ, program, browser, callerVars>>

StartNext == Import \/ CallTool

StartSpec == StartInit /\ [][StartNext]_vars

\* -------------------------------------------------------------- web_browse
\* The urls the engine hands to web_browse: two pages and a text that is no
\* url.
Urls == {"https://www.bbc.com/news", "https://edition.cnn.com", "bbc news"}

ValidUrl(url) == url # "bbc news"

\* The time a navigation takes, in milliseconds.
LoadTimes == {1500, 19000, 45000}

\* page.content()
Html(url) == <<"<html>", url>>

\* str(e)
str(e) == <<e.kind, e.at>>

\* f"Playwright error: {str(e)}"
ErrorText(e) == <<"Playwright error: ">> \o str(e)

\* The classes playwright raises: Error and its subclass TimeoutError.
PlaywrightErrors == {"Error", "TimeoutError"}

\* A handler for the timeout alone.
CaughtTimeoutOnly(kind) == kind = "TimeoutError"

\* except Exception: every class playwright raises derives from Exception.
Caught(kind) == kind \in PlaywrightErrors

\* The statement at pc raises: control goes to the except clause.
Raise(kind) ==
    browser' = [browser EXCEPT !.pc = "except",
                               !.exc = [kind |-> kind, at |-> browser.pc]]

\* The statement at pc is done: control goes to the statement at to.
Goes(to) == browser' = [browser EXCEPT !.pc = to]

\* The program of openai-playwright.py, started, with no page being fetched.
BrowseInit ==
    /\ GraphInit
    /\ environ = Credentials
    /\ program = "ready"
    /\ toolLog = <<>>
    /\ browser = NoBrowse
    /\ inCall = NoCalls
    /\ store = <<>>

\* def web_browse(url): the dispatcher calls the tool.
BrowseCall ==
    /\ browser.pc \in {"idle", "returned", "raised"}
    /\ browser.n < MaxBrowseCalls
    /\ \E url \in Urls :
          browser' = [NoBrowse EXCEPT !.pc = "with", !.n = browser.n + 1,
                                      !.url = url]
    /\ UNCHANGED <<graphVars, startVars, callerVars>>

\* with sync_playwright() as p
EnterPlaywright ==
    /\ browser.pc = "with"
    /\ Goes("launch") \/ Raise("Error")
    /\ UNCHANGED <<graphVars, startVars, callerVars>>

\* browser = p.chromium.launch(headless=True)
Launch ==
    /\ browser.pc = "launch"
    /\ Goes("new_page") \/ Raise("Error")
    /\ UNCHANGED <<graphVars, startVars, callerVars>>

\* page = browser.new_page()
NewPage ==
    /\ browser.pc = "new_page"
    /\ Goes("goto") \/ Raise("Error")
    /\ UNCHANGED <<graphVars, startVars, callerVars>>

\* page.goto(url, timeout=20000): a text that is no url and a navigation that
\* fails raise Error, a navigation that takes longer than the timeout raises
\* TimeoutError.
Goto ==
    /\ browser.pc = "goto"
    /\ \/ Raise("Error")
       \/ /\ ValidUrl(browser.url)
          /\ \E t \in LoadTimes :
                IF t > goto_timeout
                THEN Raise("TimeoutError")
                ELSE browser' = [browser EXCEPT !.pc = "wait", !.elapsed = t]
    /\ UNCHANGED <<graphVars, startVars, callerVars>>

\* page.wait_for_load_state("networkidle")
WaitForLoadState ==
    /\ browser.pc = "wait"
    /\ Goes("content") \/ Raise("TimeoutError")
    /\ UNCHANGED <<graphVars, startVars, callerVars>>

\* html = page.content()
Content ==
    /\ browser.pc = "content"
    /\ \/ browser' = [browser EXCEPT !.pc = "close", !.html = Html(browser.url)]
       \/ Raise("Error")
    /\ UNCHANGED <<graphVars, startVars, callerVars>>

\* browser.close()
Close ==
    /\ browser.pc = "close"
    /\ Goes("return") \/ Raise("Error")
    /\ UNCHANGED <<graphVars, startVars, callerVars>>

\* return html: the with block is left, then the value is returned.
Return ==
    /\ browser.pc = "return"
    /\ \/ browser' = [browser EXCEPT !.pc = "returned", !.result = browser.html]
       \/ Raise("Error")
    /\ UNCHANGED <<graphVars, startVars, callerVars>>

\* except Exception as e: return f"Playwright error: {str(e)}"
Except ==
    /\ browser.pc = "except"
    /\ browser' = IF Caught(browser.exc.kind)
                  THEN [browser EXCEPT !.pc = "returned",
                                       !.result = ErrorText(browser.exc)]
                  ELSE [browser EXCEPT !.pc = "raised"]
    /\ UNCHANGED <<graphVars, startVars, callerVars>>

BrowseNext ==
    \/ BrowseCall
    \/ EnterPlaywright
    \/ Launch
    \/ NewPage
    \/ Goto
    \/ WaitForLoadState
    \/ Content
    \/ Close
    \/ Return
    \/ Except

BrowseSpec == BrowseInit /\ [][BrowseNext]_vars

\* -------------------------------------------------------------- the callers
\* The program started, no caller in a call, nothing stored for the thread id.
CallersInit ==
    /\ GraphInit
    /\ environ = Credentials
    /\ program = "ready"
    /\ toolLog = <<>>
    /\ browser = NoBrowse
    /\ inCall = NoCalls
    /\ store = <<>>

\* gradio_chat(message, history) in caller c: graph.invoke loads the latest
\* checkpoint of the thread id, appends the user message and stores the
\* result.  Nothing in gradio_chat waits for a call in progress.
CallerInvoke(c) ==
    /\ inCall[c].pc = "idle"
    /\ inCall[c].turns < MaxCallerTurns
    /\ \E local \in {Append(store, <<c, "user">>)} :
          /\ inCall' = [inCall EXCEPT ![c] = [@ EXCEPT !.pc = "running",
                                                       !.local = local,
                                                       !.steps = 0]]
          /\ store' = local
    /\ UNCHANGED <<graphVars, startVars, browser>>

\* A superstep of the turn of caller c: the nodes write to the state the
\* turn holds, and that state is stored as the thread's latest checkpoint.
CallerSuperstep(c) ==
    /\ inCall[c].pc = "running"
    /\ inCall[c].steps < MaxCallerSteps
    /\ \E local \in {Append(inCall[c].local, <<c, "assistant">>)} :
          /\ inCall' = [inCall EXCEPT ![c] = [@ EXCEPT !.local = local,
                                                       !.steps = @ + 1]]
          /\ store' = local
    /\ UNCHANGED <<graphVars, startVars, browser>>

\* graph.invoke returns and gradio_chat returns the last message.
CallerReturn(c) ==
    /\ inCall[c].pc = "running"
    /\ inCall[c].steps > 0
    /\ inCall' = [inCall EXCEPT ![c] = [@ EXCEPT !.pc = "idle",
                                                 !.turns = @ + 1]]
    /\ UNCHANGED <<graphVars, startVars, browser, store>>

CallersNext ==
    \E c \in Callers : CallerInvoke(c) \/ CallerSuperstep(c) \/ CallerReturn(c)

CallersSpec == CallersInit /\ [][CallersNext]_vars

\* ================================================================== claims

\* C1: a worker pass whose assistant message carries tool-call requests
\* schedules the tool dispatcher and nothing else; the evaluator is not run
\* on that worker output.
C1_ToolsBeforeEvaluator ==
    (ran = {"worker"} /\ Last(messages).tool_calls # <<>>) => next = {"tools"}

\* C2: within a turn at most one node is scheduled for, and runs in, any one
\* superstep.
C2_OneNodeAtATime ==
    Cardinality(next) <= 1 /\ Cardinality(ran) <= 1

\* C3: an evaluator pass that sets redo = false ends the turn: nothing is
\* scheduled after it, and gradio_chat returns the content of the assistant
\* message of the most recent worker pass, which is worker_output.
C3_OkEndsTurn ==
    ("evaluator" \in ran /\ redo = "False") =>
        /\ next = {}
        /\ status = "done" =>
              /\ returned = worker_output
              /\ Last(messages).role = "assistant"
              /\ returned = Last(messages).content

\* C4: an evaluator pass that sets redo = true schedules the worker and
\* nothing else and leaves the plan as it was; the superstep that follows it
\* runs the worker, not the planner, on that same plan.
C4_RetryKeepsPlan ==
    [][ /\ (step' = step + 1 /\ "evaluator" \in next /\ redo' = "True") =>
              (next' = {"worker"} /\ plan' = plan)
        /\ (step' = step + 1 /\ "evaluator" \in ran /\ redo = "True") =>
              /\ ran' = {"worker"}
              /\ plan' = plan
              /\ workerPrompt'[2].content = FollowPlan(plan) ]_vars

C4_Witness ==
    /\ ran = {"worker"}
    /\ redo = "True"
    /\ evaluation = Retry
    /\ step > 3
    /\ Last(entryMessages).role = "assistant"
    /\ Last(entryMessages).tool_calls = <<>>

\* C5: a turn whose evaluator always answers retry and whose worker never
\* asks for a tool does not run on for ever and does not end with an answer:
\* it ends with the recursion error, after exactly 100 supersteps.
C5_AlwaysRetryAborts ==
    /\ step <= 100
    /\ status = "out_of_steps" => (step = 100 /\ returned = GraphRecursionError)
    /\ (engine = "retry" /\ status # "running") =>
          /\ status = "out_of_steps"
          /\ step = 100
          /\ returned = GraphRecursionError
          /\ \A i \in 1..Len(messages) : messages[i].content # returned

C5_Witness ==
    /\ engine = "retry"
    /\ status = "out_of_steps"
    /\ step = 100
    /\ \A i \in 1..Len(messages) : messages[i].tool_calls = <<>>

\* C6: every turn ends, whatever the engine answers: a turn in progress
\* leads to a turn that is done or aborted.
C6_TurnEnds == (status = "running") ~> (status # "running")

C6_Witness ==
    /\ engine = "both"
    /\ status = "out_of_steps"
    /\ \E i \in 1..Len(messages) : messages[i].role = "tool"
    /\ \E i \in 2..Len(messages) :
          messages[i].role = "assistant" /\ messages[i - 1].role = "assistant"

\* A text that is the word retry in any letter case, with nothing around it
\* but whitespace.
IsRetryWord(t) ==
    \E i \in 1..Len(t) :
        /\ i + 4 <= Len(t)
        /\ t[i] \in {"r", "R"}
        /\ t[i + 1] \in {"e", "E"}
        /\ t[i + 2] \in {"t", "T"}
        /\ t[i + 3] \in {"r", "R"}
        /\ t[i + 4] \in {"y", "Y"}
        /\ \A j \in 1..Len(t) : (j < i \/ j > i + 4) => t[j] \in {" ", "\n", "\t"}

\* C7: the evaluator sets redo = true exactly when the engine's text is the
\* word retry up to letter case and surrounding whitespace; every other text
\* sets redo = false.
C7_ExactRetry ==
    "evaluator" \in ran =>
        /\ redo \in {"True", "False"}
        /\ redo = "True" <=> IsRetryWord(evalInput.text)

C7_Witness ==
    /\ "evaluator" \in ran
    /\ evalInput.text = <<" ", "r", "e", "t", "R", "Y", "\n">>
    /\ redo = "True"

\* C8: the question every evaluator pass judges against is the user message
\* of the current turn.
C8_JudgesUserQuestion ==
    "evaluator" \in ran => evalInput.user_question = question

\* C9: the prompt of every worker pass holds the current plan and the
\* tool-result messages of the history the pass starts from.
C9_WorkerSeesHistory ==
    "worker" \in ran =>
        /\ \E j \in 1..Len(workerPrompt) : workerPrompt[j].content = FollowPlan(plan)
        /\ \A i \in 1..Len(entryMessages) :
              entryMessages[i].role = "tool" =>
                  \E j \in 1..Len(workerPrompt) :
                      /\ workerPrompt[j].role = "tool"
                      /\ workerPrompt[j].content = entryMessages[i].content

\* The tool messages of a history, as the ids of the requests they answer.
RECURSIVE Answered(_)
Answered(h) ==
    IF h = <<>> THEN <<>>
    ELSE (IF Head(h).role = "tool" THEN <<Head(h).tool_call_id>> ELSE <<>>)
         \o Answered(Tail(h))

\* The requests of a history, as their ids.
RECURSIVE Requested(_)
Requested(h) ==
    IF h = <<>> THEN <<>>
    ELSE [k \in 1..Len(Head(h).tool_calls) |-> Head(h).tool_calls[k].id]
         \o Requested(Tail(h))

\* C10: at every worker entry the history holds, for the requests made so
\* far, one tool result each and in request order.
C10_ToolCallsMatched ==
    "worker" \in ran => Answered(entryMessages) = Requested(entryMessages)

\* C11: the stored history of the thread is append-only, within a turn and
\* from one call of gradio_chat to the next, aborted turns included: every
\* step leaves the messages stored so far in place, with their content and
\* order, and the count never goes down.
C11_HistoryAppendOnly ==
    [][ /\ Len(messages') >= Len(messages)
        /\ SubSeq(messages', 1, Len(messages)) = messages ]_vars

C11_Witness ==
    /\ turn = 2
    /\ "worker" \in ran
    /\ Len(messages) > recursion_limit
    /\ Len(messages) > Len(entryMessages)

\* C12: the call of gradio_chat that follows a turn interrupted after a
\* completed superstep carries that turn on: what is scheduled is what the
\* interrupted turn had pending, no node that completed is scheduled again,
\* and no stored message is in the history twice.
C12_ResumesAtPendingNode ==
    [][ (status = "interrupted" /\ step > 0 /\ status' = "running") =>
            /\ next' = next
            /\ "planner" \notin next'
            /\ \A i, j \in 1..Len(messages') :
                  messages'[i].id = messages'[j].id => i = j ]_vars

\* C13: the state a turn starts from carries no plan and no verdict of an
\* earlier turn: at the start of every turn after the first, plan, evaluation
\* and redo are as they are on a new thread.
C13_ScratchNotRetained ==
    (status = "running" /\ step = 0 /\ turn > 1) =>
        /\ plan = None
        /\ evaluation = None
        /\ redo = "None"

\* The tool messages of a history that answer the request with the given id.
AnswersTo(h, id) ==
    {i \in 1..Len(h) : h[i].role = "tool" /\ h[i].tool_call_id = id}

\* C14: a tool pass answers every request whose name is not a registered
\* tool with exactly one tool message, whose text is the error text for an
\* unknown tool; the pass schedules the worker and the turn goes on.
C14_UnknownToolAnswered ==
    [][ ("tools" \in next /\ step' = step + 1) =>
            \A k \in 1..Len(Last(messages).tool_calls) :
                Last(messages).tool_calls[k].name \notin ToolNames =>
                    /\ Cardinality(AnswersTo(messages', Last(messages).tool_calls[k].id)) = 1
                    /\ \A i \in AnswersTo(messages', Last(messages).tool_calls[k].id) :
                          /\ i > Len(messages)
                          /\ messages'[i].content =
                                <<"Error: not a valid tool", Last(messages).tool_calls[k].name>>
                          /\ \A n \in ToolNames : messages'[i].content # ToolResult(n)
                    /\ next' = {"worker"}
                    /\ status' = "running" ]_vars

C14_Witness ==
    /\ "tools" \in ran
    /\ status = "running"
    /\ next = {"worker"}
    /\ Last(messages).role = "tool"
    /\ Last(messages).content = <<"Error: not a valid tool", "lookup">>

\* The credentials a tool is built from.
CredentialsOf(name) ==
    IF name = "search" THEN {"SERPER_API_KEY"}
    ELSE {"PUSHOVER_TOKEN", "PUSHOVER_USER"}

\* C15: whatever credentials are missing from the environment, the program
\* starts, and every call of a tool that lacks one of its credentials gives
\* a tool message with error text, never the tool's text of success.
C15_AbsentCredentialIsToolError ==
    /\ program # "failed"
    /\ \A i \in 1..Len(toolLog) :
          ~(CredentialsOf(toolLog[i].name) \subseteq environ) =>
              /\ toolLog[i].content[1] = "Error: tool raised"
              /\ toolLog[i].content # ToolResult(toolLog[i].name)

\* C16: web_browse never raises into the dispatcher.  For every url and
\* every failure of entering playwright, launching, opening the page,
\* navigating, waiting, reading and closing, the call returns a text: the
\* html of the page when nothing failed, and otherwise an error text that
\* begins "Playwright error: ".  No navigation of more than 20000 ms gets
\* past page.goto.
C16_BrowseReturnsText ==
    /\ browser.pc # "raised"
    /\ browser.pc \in {"wait", "content", "close", "return"} =>
          browser.elapsed <= 20000
    /\ browser.pc = "returned" =>
          /\ browser.result # None
          /\ browser.elapsed <= 20000
          /\ \/ /\ browser.exc = NoException
                /\ browser.result = <<"<html>", browser.url>>
             \/ /\ browser.exc # NoException
                /\ Len(browser.result) > 1
                /\ browser.result[1] = "Playwright error: "

C16_Witness ==
    /\ browser.pc = "returned"
    /\ browser.n = 2
    /\ browser.exc = [kind |-> "TimeoutError", at |-> "goto"]
    /\ browser.result[1] = "Playwright error: "

\* The content of the most recent user message of a history.
RECURSIVE LastUserText(_)
LastUserText(h) ==
    IF h = <<>> THEN None
    ELSE IF Last(h).role = "user" THEN Last(h).content
    ELSE LastUserText(SubSeq(h, 1, Len(h) - 1))

\* C17: each node changes only its own part of the state.  A planner pass
\* reads the text of the most recent user message and changes nothing but
\* plan; a worker pass changes nothing but worker_output and messages, to
\* which it appends exactly one assistant message; an evaluator pass changes
\* nothing but redo and evaluation, and appends no message (the messages
\* added in its superstep are the tool messages of a tool pass run beside
\* it).  redo and evaluation change in no step without an evaluator pass, and
\* what is scheduled after a planner or worker pass does not depend on redo.
C17_NodesKeepToTheirKeys ==
    [][ /\ (step' = step + 1 /\ "planner" \in next) =>
              /\ plannerInput' = LastUserText(messages)
              /\ <<messages, worker_output, evaluation, redo>>' =
                    <<messages, worker_output, evaluation, redo>>
              /\ next' = {"worker"}
        /\ (step' = step + 1 /\ "worker" \in next) =>
              /\ <<plan, evaluation, redo>>' = <<plan, evaluation, redo>>
              /\ Len(messages') = Len(messages) + 1
              /\ SubSeq(messages', 1, Len(messages)) = messages
              /\ Last(messages').role = "assistant"
              /\ Last(messages').content = worker_output'
              /\ next' = IF Last(messages').tool_calls = <<>>
                         THEN {"evaluator"} ELSE {"tools", "evaluator"}
        /\ (step' = step + 1 /\ "evaluator" \in next) =>
              /\ <<plan, worker_output>>' = <<plan, worker_output>>
              /\ "tools" \notin next => messages' = messages
              /\ \A i \in (Len(messages) + 1)..Len(messages') :
                    messages'[i].role = "tool"
        /\ (redo' # redo \/ evaluation' # evaluation) =>
              (step' = step + 1 /\ "evaluator" \in next) ]_vars

C17_Witness ==
    /\ turn = 2
    /\ ran = {"evaluator"}
    /\ redo = "True"
    /\ evaluation = Retry
    /\ Last(messages).role = "assistant"
    /\ \E i \in 1..Len(messages) : messages[i].role = "tool"

\* C18: no two turns on the thread id are in progress at the same time: at
\* most one caller is inside gradio_chat, so what a turn has read of the
\* thread is what is stored until that turn writes.
C18_TurnsSerialized ==
    /\ Cardinality({c \in Callers : inCall[c].pc = "running"}) <= 1
    /\ \A c \in Callers : inCall[c].pc = "running" => store = inCall[c].local

\* C19: in every turn the planner runs exactly once, in the first superstep
\* and on that turn's user message; no later superstep of the turn runs it or
\* changes the plan, and every worker pass comes after it and is prompted
\* with the plan it wrote, not with a plan an earlier turn left in the
\* thread.  The branch after every evaluator pass follows the redo that this
\* pass wrote, not a redo left in the thread.
C19_PlanAndVerdictOfThisTurn ==
    [][ /\ (step' = step + 1 /\ step = 0) =>
              /\ next = {"planner"}
              /\ plannerInput' = question
              /\ plan' # None
        /\ (step' = step + 1 /\ step > 0) =>
              /\ "planner" \notin next
              /\ plan' = plan
              /\ question' = question
        /\ (step' = step + 1 /\ "worker" \in next) =>
              /\ step > 0
              /\ workerPrompt'[2].content = FollowPlan(plan)
        /\ (step' = step + 1 /\ "evaluator" \in next) =>
              /\ redo' = IF Normalize(evalInput'.text) = Retry
                         THEN "True" ELSE "False"
              /\ ("worker" \in next') <=> (redo' = "True" \/ "tools" \in next) ]_vars

C19_Witness ==
    /\ turn = 2
    /\ ran = {"evaluator"}
    /\ step = 3
    /\ workerPrompt = <<>>
    /\ plan = PlanTexts[2]
    /\ redo = "False"
    /\ next = {}
    /\ Len(messages) > recursion_limit \div 2
    /\ \A i \in 1..Len(messages) : messages[i].tool_calls = <<>>

\* C20: after every evaluator pass the two verdict fields agree: evaluation
\* is "ok" or "retry", and redo is true exactly when evaluation is "retry".
\* An engine text that is neither word is not stored: evaluation is "ok".
C20_VerdictFieldsAgree ==
    /\ "evaluator" \in ran =>
          /\ evaluation \in {Ok, Retry}
          /\ redo \in {"True", "False"}
          /\ redo = "True" <=> evaluation = Retry
          /\ Normalize(evalInput.text) \notin {Ok, Retry} =>
                (evaluation = Ok /\ redo = "False")
    /\ evaluation = None <=> redo = "None"
    /\ evaluation # None =>
          (evaluation \in {Ok, Retry} /\ (redo = "True" <=> evaluation = Retry))

C20_Witness ==
    /\ "evaluator" \in ran
    /\ evalInput.text = <<"n", "o", "t", " ", "s", "u", "r", "e">>
    /\ evaluation = Ok
    /\ redo = "False"
=============================================================================
